---- MODULE Spec2Model ----
(***************************************************************************)
(* A model of the Local-LLM-Studio ML control layer:                        *)
(*   - TrainingMonitor            (src/server/ml_optimizer.py)              *)
(*   - MLOptimizer and create_production_config                             *)
(*                                (src/server/ml_optimizer.py)              *)
(*   - the dataset validators     (src/server/ml_optimizer.py and the       *)
(*                                 services)                                *)
(*   - the line-oriented services (src/server/ml_service_simple.py,         *)
(*                                 src/server/ml_service_unified.py)        *)
(* The three components share no state.  Each has its own next-state        *)
(* relation and its own specification over the module's variables:          *)
(* SpecMonitor, SpecOptimizer and SpecService.                              *)
(***************************************************************************)
EXTENDS Integers, Sequences, FiniteSets, TLC

VARIABLES
    \* ---- TrainingMonitor (one instance)
    metrics_history,   \* self.metrics_history: sequence of recorded samples
    start_time,        \* self.start_time: NoTime (None) or a clock reading
    best_loss,         \* self.best_loss: a float, possibly +infinity
    now,               \* the wall clock read by time.time()
    monRet,            \* outcome of the monitor's most recent operation
    \* ---- MLOptimizer (one instance) and the host it runs on
    hostMemory,        \* psutil.virtual_memory().available, in memory units
    optimizer,         \* the MLOptimizer object's fields, or NoOptimizer
    optRet,            \* inputs and outcome of the most recent optimizer call
    \* ---- a service process (ml_service_simple.py or ml_service_unified.py)
    variant,           \* which script the process runs: "simple" or "unified"
    ml_available,      \* ML_AVAILABLE, set when the unified script is imported
    seed,              \* the seed of the process's random generator
    rngDraws,          \* numbers drawn from the generator so far
    stdin,             \* request lines written to the process, not yet read
    stdinClosed,       \* the writer has closed the process's stdin
    stdout,            \* every line the process has written and flushed
    svcPc,             \* where the process is: start, idle, training, ...
    svcReq,            \* data of the request being handled
    epoch,             \* i of train_model's loop
    trainLoss,         \* train_model's local loss
    runStart,          \* Len(stdout) when the latest training request was taken
    runState,          \* the latest training request: none, running or done
    runEnd,            \* Len(stdout) once its result was printed, else 0
    \* ---- the supervising caller that reads the process's stdout
    supPhase,          \* idle, awaiting, succeeded, failed or answered
    supRequest,        \* the request the supervisor is waiting on
    supCursor,         \* lines of stdout the supervisor has read
    supRunStart,       \* supCursor when the awaited request was sent
    supSaw,            \* how the awaited run ended for the supervisor
    supProgress,       \* the last progress value read in the awaited run
    sent,              \* requests sent so far
    \* ---- the dataset on disk and direct calls of the validators
    dataset,           \* the dataset file: its path and its lines
    valRet,            \* argument and result of the most recent validate call
    \* ---- the process's command line, exit status and served requests
    argv,              \* sys.argv[1:] of the process
    exitCode,          \* the process's exit status, NoExit while it runs
    served             \* the input lines main's loop has taken so far

monVars == <<metrics_history, start_time, best_loss, now, monRet>>
optVars == <<hostMemory, optimizer, optRet>>

svcVars == <<variant, ml_available, seed, rngDraws, stdin, stdinClosed, stdout,
             svcPc, svcReq, epoch, trainLoss, runStart, runState, runEnd>>
supVars == <<supPhase, supRequest, supCursor, supRunStart, supSaw, supProgress,
             sent>>

valVars == <<dataset, valRet>>
cliVars == <<argv, exitCode, served>>

vars == <<monVars, optVars, svcVars, supVars, valVars, cliVars>>

(***************************************************************************)
(* Bounds of the model.                                                     *)
(***************************************************************************)
MaxLoss == 2        \* losses are drawn from a grid of MaxLoss + 1 values
MaxHistory == 6     \* samples logged in one run
MaxClock == 1       \* clock readings 0..MaxClock
MaxMemUnits == 11   \* host memory levels 0..MaxMemUnits, and the thresholds
MaxSmallDataset == 3 \* dataset sizes -1..MaxSmallDataset, and the tier edges
MaxRequests == 2    \* request lines sent to one service process
MaxSeed == 1        \* seeds 0..MaxSeed of the random generator

(***************************************************************************)
(* Losses are counted in units of 1/LossUnitsPerOne, so that 0.001 and the  *)
(* losses 1.0005, 0.9998, ... are whole numbers of units.  On the values    *)
(* used here binary64 subtraction, doubling and comparison give the same    *)
(* results as the arithmetic of whole units.                                *)
(***************************************************************************)
LossUnitsPerOne == 10000

MinSamples == 5              \* if len(self.metrics_history) < 5
RecentWindow == 5            \* self.metrics_history[-5:]
ExplosionFactor == 2         \* self.metrics_history[0]['loss'] * 2
PlateauThreshold == 10       \* loss_variance < 0.001
OscillationCount == 3        \* sum(...) >= 3
PercentScale == 100          \* ... / losses[0] * 100

\* the losses passed to log_metrics: a grid of half-thresholds 0, 0.0005, ...
LossValues == {(i * PlateauThreshold) \div 2 : i \in 0..MaxLoss}

\* a run of five samples whose losses stay within 0.0007 of each other:
\* 1.000, 1.0005, 0.9998, 1.0002, 0.9999
PlateauRun == <<10000, 10005, 9998, 10002, 9999>>

\* the losses log_metrics may be called with when k samples are recorded
LossInputs(k) ==
    LossValues \cup (IF k < Len(PlateauRun) THEN {PlateauRun[k + 1]} ELSE {})

(***************************************************************************)
(* Floats with +infinity: float('inf') compares greater than every finite  *)
(* value.                                                                   *)
(***************************************************************************)
PosInf == [isInf |-> TRUE, val |-> 0]
Fin(x) == [isInf |-> FALSE, val |-> x]
FloatLess(x, b) == b.isInf \/ x < b.val

NoTime == -1        \* self.start_time = None

RECURSIVE SeqMin(_)
SeqMin(s) ==
    IF Len(s) = 1 THEN s[1]
    ELSE LET m == SeqMin(Tail(s)) IN IF s[1] < m THEN s[1] ELSE m

RECURSIVE SeqMax(_)
SeqMax(s) ==
    IF Len(s) = 1 THEN s[1]
    ELSE LET m == SeqMax(Tail(s)) IN IF s[1] > m THEN s[1] ELSE m

Losses(h) == [i \in 1..Len(h) |-> h[i].loss]

\* s[-n:]
LastN(s, n) == IF Len(s) <= n THEN s ELSE SubSeq(s, Len(s) - n + 1, Len(s))

(***************************************************************************)
(* TrainingMonitor                                                          *)
(***************************************************************************)
NoValue == <<>>

MonRet(op, raised, value) == [op |-> op, raised |-> raised, value |-> value]

MonInit ==
    /\ metrics_history = <<>>
    /\ start_time = NoTime
    /\ best_loss = PosInf
    /\ now = 0
    /\ monRet = MonRet("init", FALSE, NoValue)

\* time passes between two calls
Tick ==
    /\ now < MaxClock
    /\ now' = now + 1
    /\ UNCHANGED <<metrics_history, start_time, best_loss, monRet>>
    /\ UNCHANGED <<optVars, svcVars, supVars, valVars, cliVars>>

start_monitoring ==
    /\ start_time' = now
    /\ metrics_history' = <<>>
    /\ monRet' = MonRet("start_monitoring", FALSE, NoValue)
    /\ UNCHANGED <<best_loss, now>>   \* best_loss is not assigned
    /\ UNCHANGED <<optVars, svcVars, supVars, valVars, cliVars>>

\* loss < self.best_loss, the test that decides a new best
IsBest(loss, b) == FloatLess(loss, b)

\* a start time that is always taken for a number
AnyStartTime(start) == TRUE

\* time.time() - self.start_time can be evaluated: the start time is a
\* number, not None (float - None raises TypeError)
IsNumber(start) == start # NoTime

\* a history that takes the new sample in front
PrependSample(h, sample) == <<sample>> \o h

\* self.metrics_history.append(metrics)
AppendSample(h, sample) == Append(h, sample)

log_metrics(loss) ==
    /\ Len(metrics_history) < MaxHistory
    /\ UNCHANGED <<optVars, svcVars, supVars, valVars, cliVars>>
    /\ IF ~IsNumber(start_time)
       THEN \* time.time() - None raises TypeError before anything is stored
            /\ monRet' = MonRet("log_metrics", TRUE, "TypeError")
            /\ UNCHANGED <<metrics_history, start_time, best_loss, now>>
       ELSE /\ metrics_history' = AppendSample(metrics_history,
                    [loss |-> loss,
                     elapsed_seconds |-> now - start_time,
                     timestamp |-> now,
                     is_best |-> IsBest(loss, best_loss)])
            /\ best_loss' = IF IsBest(loss, best_loss) THEN Fin(loss) ELSE best_loss
            /\ monRet' = MonRet("log_metrics", FALSE, NoValue)
            /\ UNCHANGED <<start_time, now>>

\* TrainingMonitor.get_training_summary: the value returned, or the exception.
\* A quotient is kept as the pair <<numerator, denominator>>.
TrainingSummary(h, start, best, t) ==
    IF h = <<>> THEN MonRet("get_training_summary", FALSE, NoValue)
    ELSE LET losses == Losses(h)
             total_time == t - start
         IN  IF losses[1] = 0
             THEN MonRet("get_training_summary", TRUE, "ZeroDivisionError")
             ELSE MonRet("get_training_summary", FALSE,
                         [total_training_time_seconds |-> total_time,
                          total_steps |-> Len(h),
                          best_loss |-> best,
                          final_loss |-> losses[Len(losses)],
                          loss_improvement |->
                              <<(losses[1] - losses[Len(losses)]) * PercentScale,
                                losses[1]>>,
                          avg_step_time |-> <<total_time, Len(h)>>])

get_training_summary ==
    /\ monRet' = TrainingSummary(metrics_history, start_time, best_loss, now)
    /\ UNCHANGED <<metrics_history, start_time, best_loss, now>>
    /\ UNCHANGED <<optVars, svcVars, supVars, valVars, cliVars>>

\* a monitor that only declines to judge an empty history
NoSamples(h) == Len(h) = 0

\* len(self.metrics_history) < 5
TooFewSamples(h) == Len(h) < MinSamples

\* a comparison with twice the oldest loss of the window
ExplodedOverWindow(h, recent) ==
    \E i \in 1..Len(recent) : recent[i] > recent[1] * ExplosionFactor

\* any(loss > self.metrics_history[0]['loss'] * 2 for loss in recent_losses)
Exploded(h, recent) ==
    \E i \in 1..Len(recent) : recent[i] > h[1].loss * ExplosionFactor

\* a plateau test that includes the threshold
PlateauedInclusive(recent) == SeqMax(recent) - SeqMin(recent) <= PlateauThreshold

\* max(recent_losses) - min(recent_losses) < 0.001
Plateaued(recent) == SeqMax(recent) - SeqMin(recent) < PlateauThreshold

\* an oscillation test that counts the changes that are not zero
OscillatingEitherWay(recent) ==
    Cardinality({i \in 2..Len(recent) : recent[i] - recent[i - 1] # 0})
        >= OscillationCount

\* loss_changes = [recent_losses[i] - recent_losses[i-1] for i in 1..len-1];
\* sum(1 for change in loss_changes if change > 0) >= 3
Oscillating(recent) ==
    Cardinality({i \in 2..Len(recent) : recent[i] - recent[i - 1] > 0})
        >= OscillationCount

\* TrainingMonitor.detect_training_issues: the list it returns; an issue is
\* named by the first word of its message
DetectTrainingIssues(h) ==
    IF TooFewSamples(h) THEN <<>>
    ELSE LET recent_losses == LastN(Losses(h), RecentWindow)
         IN  (IF Exploded(h, recent_losses) THEN <<"explosion">> ELSE <<>>)
             \o (IF Plateaued(recent_losses) THEN <<"plateau">> ELSE <<>>)
             \o (IF Oscillating(recent_losses) THEN <<"oscillation">> ELSE <<>>)

detect_training_issues ==
    /\ monRet' = MonRet("detect_training_issues", FALSE,
                        DetectTrainingIssues(metrics_history))
    /\ UNCHANGED <<metrics_history, start_time, best_loss, now>>
    /\ UNCHANGED <<optVars, svcVars, supVars, valVars, cliVars>>

MonNext ==
    \/ Tick
    \/ start_monitoring
    \/ \E loss \in LossInputs(Len(metrics_history)) : log_metrics(loss)
    \/ get_training_summary
    \/ detect_training_issues


(***************************************************************************)
(* MLOptimizer                                                              *)
(*                                                                          *)
(* Memory is counted in units of 1/MemUnitsPerGiB GiB.  A learning rate is  *)
(* counted in units of 1/LrUnitsPerMicro of 1e-6, so that base_lr *         *)
(* (batch_size / 8) is a whole number of units whenever base_lr is a whole  *)
(* number of 1e-6.                                                          *)
(***************************************************************************)
MemUnitsPerGiB == 16
LrUnitsPerMicro == 8

UsablePercent == 60          \* usable_memory = available_gb * 0.6
MemPerSampleCentiGB == 5     \* memory_per_sample['gpt2'] = 0.05 GB
BatchCap == 32               \* return min(batch_size, 32)
SmallDatasetEdge == 100      \* if dataset_size < 100
MediumDatasetEdge == 1000    \* elif dataset_size < 1000
SmallBatch == 4              \* min(4, dataset_size)
ReferenceBatch == 8          \* min(8, ...), batch_size < 8, 8 // ..., / 8
DefaultLrMicro == 50         \* config.get('learning_rate', 5e-5)
Fp16BelowGiB == 8            \* available_memory < 8 * (1024 ** 3)
CheckpointAbove == 5000      \* dataset_size > 5000
DefaultProdDataset == 1000   \* base_config.get('dataset_size', 1000)
LowMemoryGiB == 4            \* memory_status['available_gb'] < 4
MaxWorkers == 4              \* min(4, optimizer.cpu_count)
HostCpuCount == 2            \* mp.cpu_count() of the modelled host

PyMin(a, b) == IF a < b THEN a ELSE b
PyMax(a, b) == IF a > b THEN a ELSE b

\* a quotient rounded up where // rounds down
PyCeilDiv(a, b) == 0 - (IF b > 0 THEN (0 - a) \div b ELSE a \div (0 - b))

\* Python's a // b for b # 0: the floor of the quotient, for either sign.
PyFloorDiv(a, b) == IF b > 0 THEN a \div b ELSE (0 - a) \div (0 - b)

\* dict.update / item assignment: the keys of upd replace those of base.
DictUpdate(base, upd) == upd @@ base
DictGet(d, key, default) == IF key \in DOMAIN d THEN d[key] ELSE default
EmptyDict == [k \in {} |-> 0]

(***************************************************************************)
(* The memory levels at which binary64 arithmetic puts                      *)
(* (available_gb * 0.6) / 0.05 just below the whole number 12 *             *)
(* available_gb (0.6 and 0.05 have no exact binary64 form), so that int()   *)
(* truncates to one less: available_gb in {0.25, 0.5, 0.75, 1, 1.5, 2,      *)
(* 2.25}.  At every other level below the cap the truncation is the exact  *)
(* floor.                                                                   *)
(***************************************************************************)
Binary64TruncatesBelow == {4, 8, 12, 16, 24, 32, 36}

\* int(usable_memory / est_memory)
IntUsableOverPerSample(mem) ==
    LET exact == (mem * UsablePercent) \div (MemPerSampleCentiGB * MemUnitsPerGiB)
    IN  IF mem \in Binary64TruncatesBelow THEN exact - 1 ELSE exact

_calculate_optimal_batch_size(mem) ==
    PyMin(PyMax(1, IntUsableOverPerSample(mem)), BatchCap)

NoOptimizer == [constructed |-> FALSE, cpu_count |-> 0, available_memory |-> 0,
                optimal_batch_size |-> 0]

\* MLOptimizer.__init__ on a host with `mem` available
NewOptimizer(mem) ==
    [constructed |-> TRUE,
     cpu_count |-> HostCpuCount,
     available_memory |-> mem,
     optimal_batch_size |-> _calculate_optimal_batch_size(mem)]

\* Adaptive batch size (the three tiers)
TierBatchSize(optimum, dataset_size) ==
    IF dataset_size < SmallDatasetEdge THEN PyMin(SmallBatch, dataset_size)
    ELSE IF dataset_size < MediumDatasetEdge THEN PyMin(ReferenceBatch, optimum)
    ELSE optimum

Raised(what) == [raised |-> TRUE, error |-> what, value |-> EmptyDict]
Returned(v) == [raised |-> FALSE, error |-> "", value |-> v]

\* optimized = config: one dict under two names
SameDict(config) == "config"

\* optimized = config.copy(): the dict that the item assignments to
\* `optimized` write to is a new one, not the caller's
ConfigCopy(config) == "copy"

\* the caller's dict when the call is over, `assigned` being what the dict
\* named `optimized` holds by then
CallerConfigAfter(config, assigned) ==
    IF ConfigCopy(config) = "config" THEN assigned ELSE config

\* what `optimized` holds when optimize_training_config ends: the resolved
\* config, or the copy with batch_size 0 when 8 // 0 raises
Assigned(config, result) ==
    IF result.raised THEN DictUpdate(config, [batch_size |-> 0]) ELSE result.value

\* optimize_training_config(self, config, dataset_size): the host's memory
\* is not read, only the fields __init__ stored
optimize_training_config(self, config, dataset_size) ==
    LET batch_size == TierBatchSize(self.optimal_batch_size, dataset_size)
        base_lr == DictGet(config, "learning_rate", DefaultLrMicro * LrUnitsPerMicro)
        save_steps == PyMax(100, dataset_size \div 10)
    IN  IF batch_size < ReferenceBatch /\ batch_size = 0
        THEN Raised("ZeroDivisionError")      \* 8 // 0
        ELSE Returned(DictUpdate(config,
               [batch_size |-> batch_size,
                gradient_accumulation_steps |->
                    IF batch_size < ReferenceBatch
                    THEN PyFloorDiv(ReferenceBatch, batch_size) ELSE 1,
                learning_rate |-> (base_lr * batch_size) \div ReferenceBatch,
                fp16 |-> self.available_memory < Fp16BelowGiB * MemUnitsPerGiB,
                gradient_checkpointing |-> dataset_size > CheckpointAbove,
                logging_steps |-> PyMax(10, dataset_size \div 100),
                save_steps |-> save_steps,
                load_best_model_at_end |-> TRUE,
                evaluation_strategy |-> "steps",
                eval_steps |-> save_steps,
                save_total_limit |-> 3,
                metric_for_best_model |-> "eval_loss"]))

\* time_per_sample, in hundredths of a second; 0.1 for an unknown family
TimePerSampleCenti(model_type) ==
    CASE model_type = "gpt2" -> 10
      [] model_type = "distilbert" -> 8
      [] model_type = "tinybert" -> 5
      [] OTHER -> 10

\* int() where round() is meant: the quotient cut off below
RoundDown(n, d) == IF d < 0 THEN (0 - n) \div (0 - d) ELSE n \div d

\* Python's round() of the quotient n/d, d # 0, of either sign: to the
\* nearest whole number, a tie going to the even one.
RoundHalfEven(n, d) ==
    LET num == IF d < 0 THEN 0 - n ELSE n
        den == IF d < 0 THEN 0 - d ELSE d
        q == num \div den
        r == num % den
    IN  IF 2 * r < den THEN q
        ELSE IF 2 * r > den THEN q + 1
        ELSE IF q % 2 = 0 THEN q ELSE q + 1

(***************************************************************************)
(* round(total_seconds / 60, 1), in tenths of a minute, of total_seconds =  *)
(* n/320000.  round() rounds the binary64 quotient, which at an exact tie   *)
(* of the real quotient need not be a tie: 333.0 / 60 is the binary64       *)
(* number just below 5.55 and rounds to 5.5, while 1665.0 / 60 = 27.75 is   *)
(* exact and goes to the even tenth 27.8.                                   *)
(***************************************************************************)
Binary64BelowTie == {333 * 320000}

RoundMinutes(n) ==
    IF n \in Binary64BelowTie THEN n \div 1920000
    ELSE RoundHalfEven(n, 1920000)

(***************************************************************************)
(* estimate_training_time(dataset_size, config).  With batch_efficiency =   *)
(* (320 - 3*batch_size)/320 and base_time = centi/100, estimated_seconds is *)
(* pre/32000 where pre = dataset_size * epochs * centi * (320 -              *)
(* 3*batch_size); total_seconds is 1.2 times that.                          *)
(***************************************************************************)
estimate_training_time(dataset_size, config) ==
    LET batch_size == DictGet(config, "batch_size", ReferenceBatch)
        epochs == DictGet(config, "max_epochs", 3)
        centi == TimePerSampleCenti(DictGet(config, "model_type", "gpt2"))
        perSample == epochs * centi * (320 - 3 * batch_size)
        pre == dataset_size * perSample
    IN  IF pre = 0
        THEN Raised("ZeroDivisionError")   \* dataset_size / estimated_seconds
        ELSE Returned(
               [pre_overhead_num |-> pre,
                pre_overhead_den |-> 32000,
                estimated_seconds |-> RoundHalfEven(pre * 12, 320000),
                estimated_minutes_x10 |-> RoundMinutes(pre * 12),
                samples_per_second_x100 |-> RoundHalfEven(3200000, perSample)])

HostIsLinux == TRUE     \* sys.platform == 'linux' on the modelled host

\* create_production_config(base_config) on a host whose available memory is
\* memAtInit when MLOptimizer() is built and memAtStatus when
\* get_memory_usage() reads it again
create_production_config(base_config, memAtInit, memAtStatus) ==
    LET opt == NewOptimizer(memAtInit)
        dataset_size == DictGet(base_config, "dataset_size", DefaultProdDataset)
        optimized == optimize_training_config(opt, base_config, dataset_size)
        prod == DictUpdate(optimized.value,
                   [dataloader_num_workers |-> PyMin(MaxWorkers, opt.cpu_count),
                    dataloader_pin_memory |-> TRUE,
                    remove_unused_columns |-> FALSE,
                    label_names |-> <<"labels">>,
                    push_to_hub |-> FALSE,
                    resume_from_checkpoint |-> TRUE,
                    ignore_data_skip |-> TRUE,
                    dataloader_drop_last |-> FALSE,
                    eval_accumulation_steps |-> 1,
                    prediction_loss_only |-> TRUE,
                    use_mps_device |-> FALSE,
                    tf32 |-> IF HostIsLinux THEN "True" ELSE "None"])
        LowMemoryOverride ==
                   [per_device_train_batch_size |-> 1,
                    gradient_accumulation_steps |-> 8,
                    fp16 |-> TRUE,
                    gradient_checkpointing |-> TRUE,
                    optim |-> "adamw_8bit"]
    IN  IF optimized.raised THEN optimized
        ELSE IF memAtStatus < LowMemoryGiB * MemUnitsPerGiB
        THEN Returned(DictUpdate(prod, LowMemoryOverride))
        ELSE Returned(prod)

(***************************************************************************)
(* Inputs of the optimizer's operations.                                    *)
(***************************************************************************)
MemLevels ==
    (0..MaxMemUnits)
    \cup {LowMemoryGiB * MemUnitsPerGiB - 1, LowMemoryGiB * MemUnitsPerGiB,
          Fp16BelowGiB * MemUnitsPerGiB - 1, Fp16BelowGiB * MemUnitsPerGiB}

DatasetSizes ==
    ((0 - 1)..MaxSmallDataset)
    \cup {SmallDatasetEdge - 1, SmallDatasetEdge,
          MediumDatasetEdge - 1, MediumDatasetEdge,
          CheckpointAbove, CheckpointAbove + 1}

RawConfigs ==
    {EmptyDict,
     [batch_size |-> 64],
     [batch_size |-> 2, learning_rate |-> 10 * LrUnitsPerMicro, model_name |-> "gpt2"]}

EstimateConfigs ==
    {EmptyDict,
     [batch_size |-> 32, max_epochs |-> 1, model_type |-> "tinybert"],
     [batch_size |-> 1, model_type |-> "llama"],
     [batch_size |-> 8, max_epochs |-> 3],
     [batch_size |-> 128],
     [batch_size |-> 64, model_type |-> "distilbert"]}

ProductionConfigs ==
    {EmptyDict} \cup {[dataset_size |-> d, batch_size |-> 16] : d \in {0, 50, 5001}}

NoCall == [op |-> "none", config |-> EmptyDict, configAfter |-> EmptyDict,
           dataset_size |-> 0, memNow |-> 0, result |-> Returned(EmptyDict)]

OptInit ==
    /\ hostMemory \in MemLevels
    /\ optimizer = NoOptimizer
    /\ optRet = NoCall

\* the host's available memory changes (other processes allocate or free)
HostMemoryChange ==
    \E m \in MemLevels \ {hostMemory} :
        /\ hostMemory' = m
        /\ optRet' = NoCall
        /\ UNCHANGED <<optimizer, monVars, svcVars, supVars, valVars, cliVars>>

\* optimizer = MLOptimizer()
Construct ==
    /\ optimizer' = NewOptimizer(hostMemory)
    /\ optRet' = NoCall
    /\ UNCHANGED <<hostMemory, monVars, svcVars, supVars, valVars, cliVars>>

Optimize(config, dataset_size) ==
    /\ optimizer.constructed
    /\ LET result == optimize_training_config(optimizer, config, dataset_size)
       IN  optRet' = [op |-> "optimize", config |-> config,
                      configAfter |-> CallerConfigAfter(config,
                                                        Assigned(config, result)),
                      dataset_size |-> dataset_size, memNow |-> hostMemory,
                      result |-> result]
    /\ UNCHANGED <<hostMemory, optimizer, monVars, svcVars, supVars, valVars, cliVars>>

Estimate(dataset_size, config) ==
    /\ optimizer.constructed
    /\ optRet' = [op |-> "estimate", config |-> config,
                  configAfter |-> config,      \* only config.get is called
                  dataset_size |-> dataset_size, memNow |-> hostMemory,
                  result |-> estimate_training_time(dataset_size, config)]
    /\ UNCHANGED <<hostMemory, optimizer, monVars, svcVars, supVars, valVars, cliVars>>

\* create_production_config builds its own MLOptimizer; the host's memory may
\* change between that and the later get_memory_usage() reading
CreateProductionConfig(base_config, memAtStatus) ==
    /\ hostMemory' = memAtStatus
    /\ LET result == create_production_config(base_config, hostMemory,
                                                 memAtStatus)
       IN  optRet' = [op |-> "production", config |-> base_config,
                      configAfter |-> CallerConfigAfter(base_config,
                                                        Assigned(base_config, result)),
                      dataset_size |-> DictGet(base_config, "dataset_size",
                                               DefaultProdDataset),
                      memNow |-> memAtStatus,
                      result |-> result]
    /\ UNCHANGED <<optimizer, monVars, svcVars, supVars, valVars, cliVars>>

OptNext ==
    \/ HostMemoryChange
    \/ Construct
    \/ \E c \in RawConfigs, d \in DatasetSizes : Optimize(c, d)
    \/ \E d \in DatasetSizes, c \in EstimateConfigs : Estimate(d, c)
    \/ \E c \in ProductionConfigs, m \in MemLevels : CreateProductionConfig(c, m)

(***************************************************************************)
(* Datasets and the validators.                                             *)
(*                                                                          *)
(* The file system holds one dataset file, `dataset`, and three fixed       *)
(* paths: one that does not exist, one that exists but cannot be opened and *)
(* one whose bytes are not UTF-8 text.  The dataset's lines are kept as a   *)
(* bag (how many times each text occurs): line count, duplicates and        *)
(* greatest and least length do not depend on the order of the lines.       *)
(* Every line ends with a newline.  A .csv dataset is a header line         *)
(* followed by its data lines, or an empty file.                            *)
(***************************************************************************)
SmallSampleCount == 100      \* if sample_count < 100
VerySmallDataset == 10       \* if len(df) < 10
SmallDataset == 100          \* if len(df) < 100
LongText == 2000             \* text_lengths.max() > 2000
ShortText == 10              \* text_lengths.min() < 10

LineTexts == {"q|a", "", "plain", "long"}

\* len(line) without its newline
LineLength(t) ==
    CASE t = "q|a" -> 3
      [] t = "" -> 0
      [] t = "plain" -> 50
      [] t = "long" -> LongText

IsBlank(t) == t = ""            \* not l.strip()
HasBar(t) == t = "q|a"          \* '|' in l.strip()

\* how often a text may occur in the dataset
CountLevels == {0, 1, 4, 5, 95}

\* a PDF file; its `lines` are the paragraphs (separated by blank lines) of
\* the text a PDF library extracts from it, none for a scanned document
PdfPath == "paper.pdf"
DatasetPaths == {"data.txt", "notes.md", "data.csv", PdfPath}
MissingPath == "missing.txt"    \* no such file
LockedPath == "locked.txt"      \* exists, open() raises PermissionError
BinaryPath == "blob.bin"        \* exists, its bytes are not UTF-8
NoPath == "None"                \* no path given

Paths == DatasetPaths \cup {MissingPath, LockedPath, BinaryPath}

RECURSIVE SumOver(_, _)
SumOver(f, S) ==
    IF S = {} THEN 0
    ELSE LET x == CHOOSE y \in S : TRUE IN f[x] + SumOver(f, S \ {x})

NoLines == [t \in LineTexts |-> 0]

Datasets ==
    {[path |-> p, header |-> h, lines |-> l] :
        p \in DatasetPaths, h \in BOOLEAN, l \in [LineTexts -> CountLevels]}

\* the files that can be on disk
IsDataset(ds) ==
    /\ ds \in Datasets
    /\ IF ds.path = "data.csv"
       THEN ds.header \/ ds.lines = NoLines
       ELSE IF ds.path = PdfPath
       THEN ~ds.header
       ELSE ~ds.header /\ ds.lines # NoLines

\* Path(dataset_path).suffix.lower() and str.endswith
Suffix(path) ==
    CASE path \in {"data.txt", MissingPath, LockedPath} -> ".txt"
      [] path = "data.csv" -> ".csv"
      [] path = "notes.md" -> ".md"
      [] path = PdfPath -> ".pdf"
      [] path = BinaryPath -> ".bin"
      [] OTHER -> ""

\* os.path.exists(path)
Exists(ds, path) == path = ds.path \/ path \in {LockedPath, BinaryPath}

\* open(path, 'r') and reading it as text succeed
Readable(ds, path) == path = ds.path

\* f.readlines(): the lines of the file, as a bag
ReadLines(ds) ==
    [header |-> IF ds.header THEN 1 ELSE 0, lines |-> ds.lines]

LineCount(ds) == (IF ds.header THEN 1 ELSE 0) + SumOver(ds.lines, LineTexts)

NonBlank(lines) == [t \in LineTexts |-> IF IsBlank(t) THEN 0 ELSE lines[t]]
WithBar(lines) == [t \in LineTexts |-> IF HasBar(t) THEN lines[t] ELSE 0]

(***************************************************************************)
(* A DataFrame of one text column: its rows as a bag and what each row's    *)
(* text has in addition to the line's characters (the newline that          *)
(* readlines keeps; read_csv drops it, and skips blank lines).              *)
(***************************************************************************)
Frame(rows, extra) == [rows |-> rows, extra |-> extra]
FrameLen(df) == SumOver(df.rows, LineTexts)
Duplicated(df) ==
    SumOver([t \in LineTexts |-> IF df.rows[t] > 1 THEN df.rows[t] - 1 ELSE 0],
            LineTexts)
TextLengths(df) == {LineLength(t) + df.extra : t \in {u \in LineTexts : df.rows[u] > 0}}
SetMax(S) == CHOOSE x \in S : \A y \in S : y <= x
SetMin(S) == CHOOSE x \in S : \A y \in S : x <= y

PdReadCsv(ds) == Frame(NonBlank(ds.lines), 0)
TextFrame(ds) == Frame(ds.lines, 1)

\* a check that is made only when the check before it did not fire
WhenNot(earlier, cond) == ~earlier /\ cond

\* a check made whatever the checks before it found
Independently(earlier, cond) == cond

\* the quality checks of validate_dataset_quality, in the order of the code
QualityChecks(df) ==
    LET n == FrameLen(df)
        lengths == TextLengths(df)
        very_small == n < VerySmallDataset
        small == Independently(very_small, n < SmallDataset)
        duplicates == Duplicated(df) > 0
        very_long == lengths # {} /\ SetMax(lengths) > LongText
        very_short == lengths # {} /\ SetMin(lengths) < ShortText
    IN  [warnings |->
            (IF very_small THEN <<"Very small dataset (< 10 samples)">> ELSE <<>>)
            \o (IF small THEN <<"Small dataset (< 100 samples)">> ELSE <<>>)
            \o (IF duplicates THEN <<"Found duplicate samples">> ELSE <<>>)
            \o (IF very_long THEN <<"Some texts are very long (> 2000 chars)">> ELSE <<>>)
            \o (IF very_short THEN <<"Some texts are very short (< 10 chars)">> ELSE <<>>),
         recommendations |->
            (IF very_small
             THEN <<"Consider adding more training examples for better results">>
             ELSE <<>>)
            \o (IF small THEN <<"Model may overfit. Consider data augmentation">> ELSE <<>>)
            \o (IF duplicates
                THEN <<"Remove duplicates for better training efficiency">> ELSE <<>>)
            \o (IF very_long
                THEN <<"Consider chunking long texts for better processing">> ELSE <<>>)
            \o (IF very_short
                THEN <<"Very short texts may not provide enough context">> ELSE <<>>),
         statistics |->
            IF lengths = {}
            THEN [total_samples |-> n]
            ELSE [total_samples |-> n,
                  max_text_length |-> SetMax(lengths),
                  min_text_length |-> SetMin(lengths)]]

\* the except branch of validate_dataset_quality
QualityError(what) ==
    [valid |-> FALSE,
     warnings |-> <<"Error validating dataset">>,     \* ... and str(e)
     recommendations |-> <<>>,
     statistics |-> EmptyDict]

QualityReport(df) ==
    LET q == QualityChecks(df)
    IN  [valid |-> TRUE, warnings |-> q.warnings,
         recommendations |-> q.recommendations, statistics |-> q.statistics]

\* MLOptimizer.validate_dataset_quality(dataset_path)
validate_dataset_quality(ds, dataset_path) ==
    IF dataset_path = NoPath THEN QualityError("TypeError")       \* Path(None)
    ELSE IF Suffix(dataset_path) = ".csv"
    THEN IF ~Readable(ds, dataset_path) THEN QualityError("FileNotFoundError")
         ELSE IF LineCount(ds) = 0 THEN QualityError("EmptyDataError")
         ELSE QualityReport(PdReadCsv(ds))
    ELSE IF Suffix(dataset_path) = ".json"
    THEN QualityError("FileNotFoundError")                         \* pd.read_json
    ELSE \* any other extension is read as a text file
         IF ~Exists(ds, dataset_path) THEN QualityError("FileNotFoundError")
         ELSE IF dataset_path = LockedPath THEN QualityError("PermissionError")
         ELSE IF dataset_path = BinaryPath THEN QualityError("UnicodeDecodeError")
         ELSE IF dataset_path = PdfPath THEN QualityError("UnicodeDecodeError")
         ELSE QualityReport(TextFrame(ds))

\* a request's data: a JSON object, or a JSON value that is not an object
NotAMapping == [not_a_mapping |-> TRUE]
IsMapping(data) == "not_a_mapping" \notin DOMAIN data
ValidateData(path) == IF path = NoPath THEN EmptyDict ELSE [dataset_path |-> path]

SmallWarnings(sample_count) ==
    IF sample_count < SmallSampleCount THEN <<"small_dataset">> ELSE <<>>

\* an exception that reaches the function's caller
Propagate(what) == [raised |-> what]

\* except Exception as e: return {"error": str(e)}
Caught(what) == [error |-> what]

\* ml_service.validate_dataset(data); pd is imported only when every ML
\* package is there
ServiceValidate(ds, data, mlAvailable) ==
    IF ~IsMapping(data) THEN Caught("TypeError")
    ELSE IF "dataset_path" \notin DOMAIN data THEN Caught("'dataset_path'")
    ELSE LET dataset_path == data["dataset_path"]
         IN  IF ~Exists(ds, dataset_path) THEN [error |-> "Dataset file not found"]
             ELSE IF Suffix(dataset_path) = ".csv"
             THEN IF ~mlAvailable THEN Caught("NameError")
                  ELSE IF LineCount(ds) = 0 THEN Caught("EmptyDataError")
                  ELSE [valid |-> TRUE,
                        sample_count |-> FrameLen(PdReadCsv(ds)),
                        warnings |-> SmallWarnings(FrameLen(PdReadCsv(ds)))]
             ELSE IF Suffix(dataset_path) = ".txt"
             THEN IF ~Readable(ds, dataset_path) THEN Caught("PermissionError")
                  ELSE LET sample_count == SumOver(NonBlank(ds.lines), LineTexts)
                       IN  [valid |-> TRUE, sample_count |-> sample_count,
                            warnings |-> SmallWarnings(sample_count)]
             ELSE [error |-> "Unsupported file format"]

\* ml_service_simple.validate_dataset(data)
SimpleValidate(ds, data) ==
    IF ~IsMapping(data) THEN Caught("TypeError")
    ELSE IF "dataset_path" \notin DOMAIN data THEN Caught("'dataset_path'")
    ELSE LET dataset_path == data["dataset_path"]
         IN  IF ~Exists(ds, dataset_path) THEN [error |-> "Dataset file not found"]
             ELSE IF Suffix(dataset_path) = ".csv"
             THEN LET sample_count == LineCount(ds) - 1      \* subtract header
                  IN  [valid |-> TRUE, sample_count |-> sample_count,
                       warnings |-> SmallWarnings(sample_count)]
             ELSE IF Suffix(dataset_path) = ".txt"
             THEN IF ~Readable(ds, dataset_path)
                  THEN [error |-> "Failed to read text file"]
                  ELSE LET sample_count == SumOver(WithBar(ds.lines), LineTexts)
                       IN  [valid |-> TRUE, sample_count |-> sample_count,
                            warnings |-> SmallWarnings(sample_count)]
             ELSE [error |-> "Unsupported file format"]

\* a str passed where a request's mapping is expected
Str(s) == [str |-> s]
HasGet(arg) == "str" \notin DOMAIN arg        \* arg.get exists

\* the text of a PDF with these paragraphs
PdfText(paragraphs) == [text |-> paragraphs]
OcrAvailable == FALSE       \* pytesseract, pdf2image, PIL and cv2 all import

(***************************************************************************)
(* UnifiedMLService.extract_pdf_text.  The class body defines the name      *)
(* twice; the second definition (data: Dict) replaces the first             *)
(* (pdf_path: str), so this is the method every caller reaches.             *)
(***************************************************************************)
extract_pdf_text(ds, data) ==
    IF ~HasGet(data) THEN Caught("AttributeError")      \* data.get('pdf_path')
    ELSE IF "pdf_path" \notin DOMAIN data \/ ~Exists(ds, data["pdf_path"])
    THEN [error |-> "Valid PDF path required"]
    ELSE LET textLayer == ds.path = PdfPath /\ data["pdf_path"] = PdfPath
                          /\ NonBlank(ds.lines) # NoLines
         IN  [success |-> TRUE,
              text |-> IF textLayer THEN PdfText(ds.lines)
                       ELSE IF OcrAvailable THEN PdfText(NoLines)
                       ELSE [message |-> "OCR dependencies not available"],
              ocr_used |-> ~textLayer]

\* `if extracted_text:` of a dict with keys, and extracted_text.split of a
\* value that is not a str
Truthy(value) == DOMAIN value # {}
IsStrValue(value) == DOMAIN value = {"text"}

\* UnifiedMLService.validate_dataset(data)
UnifiedValidate(ds, data, mlAvailable) ==
    IF ~IsMapping(data) THEN Caught("AttributeError")
    ELSE IF "dataset_path" \notin DOMAIN data
    THEN [error |-> "Dataset path is required"]
    ELSE LET dataset_path == data["dataset_path"]
         IN  IF ~Exists(ds, dataset_path) THEN [error |-> "Dataset file not found"]
             ELSE IF Suffix(dataset_path) = ".csv"
             THEN IF mlAvailable /\ LineCount(ds) = 0 THEN Caught("EmptyDataError")
                  ELSE LET sample_count ==
                               IF mlAvailable THEN FrameLen(PdReadCsv(ds))
                               ELSE LineCount(ds)
                       IN  [success |-> TRUE, valid |-> TRUE,
                            sample_count |-> sample_count,
                            warnings |-> SmallWarnings(sample_count)]
             ELSE IF Suffix(dataset_path) = ".txt"
             THEN IF ~Readable(ds, dataset_path) THEN Caught("PermissionError")
                  ELSE LET sample_count == SumOver(NonBlank(ds.lines), LineTexts)
                       IN  [success |-> TRUE, valid |-> TRUE,
                            sample_count |-> sample_count,
                            warnings |-> SmallWarnings(sample_count)]
             ELSE IF Suffix(dataset_path) = ".pdf"
             THEN LET extracted_text == extract_pdf_text(ds, Str(dataset_path))
                  IN  IF ~Truthy(extracted_text)
                      THEN [error |-> "Could not extract text from PDF file"]
                      ELSE IF ~IsStrValue(extracted_text)
                      THEN [error |-> "PDF processing failed"]   \* no .split
                      ELSE LET sample_count ==
                                   SumOver(NonBlank(extracted_text.text), LineTexts)
                           IN  [success |-> TRUE, valid |-> TRUE,
                                sample_count |-> sample_count,
                                warnings |-> SmallWarnings(sample_count)]
             ELSE [error |-> "Unsupported file format"]

NoValidation == [fn |-> "none", arg |-> NoPath, ml |-> FALSE, result |-> EmptyDict]

ValInit ==
    /\ IsDataset(dataset)
    /\ valRet = NoValidation

\* optimizer.validate_dataset_quality(path)
ValidateQuality(path) ==
    /\ valRet' = [fn |-> "validate_dataset_quality", arg |-> path, ml |-> FALSE,
                  result |-> validate_dataset_quality(dataset, path)]
    /\ UNCHANGED <<dataset, monVars, optVars, svcVars, supVars, cliVars>>

\* validate_dataset(data) of ml_service.py, ml_service_simple.py and
\* ml_service_unified.py, with the ML packages there or not
ValidateDataset(fn, data, mlAvailable) ==
    /\ fn = "ml_service_simple" => ~mlAvailable     \* it has no such flag
    /\ valRet' = [fn |-> fn, arg |-> data, ml |-> mlAvailable,
                  result |-> CASE fn = "ml_service"
                                    -> ServiceValidate(dataset, data, mlAvailable)
                               [] fn = "ml_service_simple"
                                    -> SimpleValidate(dataset, data)
                               [] fn = "ml_service_unified"
                                    -> UnifiedValidate(dataset, data, mlAvailable)]
    /\ UNCHANGED <<dataset, monVars, optVars, svcVars, supVars, cliVars>>

ValidatorModules == {"ml_service", "ml_service_simple", "ml_service_unified"}
ValidateArgs == {ValidateData(p) : p \in Paths \cup {NoPath}} \cup {NotAMapping}

ValNext ==
    \/ \E path \in Paths \cup {NoPath} : ValidateQuality(path)
    \/ \E fn \in ValidatorModules, data \in ValidateArgs, m \in BOOLEAN :
          ValidateDataset(fn, data, m)

(***************************************************************************)
(* The services.  A JSON object is a function from its keys; a line of      *)
(* input is a record saying whether it parses as JSON, whether the parsed   *)
(* value is an object, and the object.                                      *)
(***************************************************************************)
TrainEpochs == 10            \* for i in range(1, 11)
ProgressPerEpoch == 10       \* "progress": i * 10
LossStartTenths == 25        \* 2.5
LossStepTenths == 2          \* i * 0.2
MockTrainingLossTenths == 5  \* "training_loss": 0.5

Line(valid_json, is_mapping, data) ==
    [valid_json |-> valid_json, is_mapping |-> is_mapping, data |-> data]

RequestLines ==
    {Line(FALSE, FALSE, EmptyDict),                      \* not JSON
     Line(TRUE, FALSE, EmptyDict),                       \* JSON, not an object
     Line(TRUE, TRUE, EmptyDict),                        \* no action
     Line(TRUE, TRUE, [action |-> "bogus"]),
     Line(TRUE, TRUE, [action |-> "get_system_info"]),
     Line(TRUE, TRUE, [action |-> "train_model", dataset_path |-> "data.txt",
                       config |-> [name |-> "m", epochs |-> 3]]),
     Line(TRUE, TRUE, [action |-> "train", dataset_path |-> "data.txt"]),
     Line(TRUE, TRUE, [action |-> "train_model"]),
     Line(TRUE, TRUE, [action |-> "train_model", dataset_path |-> "missing.txt"]),
     Line(TRUE, TRUE, [action |-> "validate_dataset", dataset_path |-> "data.txt"]),
     Line(TRUE, TRUE, [action |-> "validate_dataset", dataset_path |-> MissingPath]),
     Line(TRUE, TRUE, [action |-> "validate_dataset", dataset_path |-> LockedPath]),
     Line(TRUE, TRUE, [action |-> "validate"])}

ExistingFiles == {"data.txt"}       \* os.path.exists
NoAction == "None"                  \* data.get('action') of a missing key

\* random.uniform(-0.1, 0.1), in tenths: the n-th number a generator seeded
\* with `s` yields
UniformTenths(s, n) == ((s + n) % 3) - 1

\* a progress value that counts the epochs left instead of the epochs done
ProgressOfEpochsLeft(i) == (TrainEpochs - i) * ProgressPerEpoch

\* "progress": i * 10
ProgressOf(i) == i * ProgressPerEpoch

ProgressEvent(i, l) ==
    [type |-> "training_progress", progress |-> ProgressOf(i), epoch |-> i,
     loss |-> l, status |-> "Training epoch i/10"]

ErrorResult(msg) == [error |-> msg]

\* ml_service_simple.train_model: the result it returns after the loop
SimpleTrainResult(saved, l) ==
    IF saved
    THEN [success |-> TRUE, model_path |-> "./models/trained_model_t.json",
          final_loss |-> l, epochs_completed |-> TrainEpochs, training_time |-> 3]
    ELSE ErrorResult("OSError")

SimpleSystemInfo ==
    [python_version |-> "sys.version", platform |-> "sys.platform",
     available_memory |-> "Unknown", status |-> "ready"]

\* UnifiedMLService.train_model
UnifiedTrainModel(data) ==
    IF ~ml_available
    THEN [success |-> FALSE, error |-> "ML dependencies not available"]
    ELSE LET config == DictGet(data, "config", EmptyDict)
             dataset_path == DictGet(data, "dataset_path", "")
         IN  IF dataset_path = "" \/ dataset_path \notin ExistingFiles
             THEN ErrorResult("Valid dataset path required")
             ELSE [success |-> TRUE,
                   model_path |-> "./models/trained_name",
                   training_loss |-> MockTrainingLossTenths,
                   epochs_completed |-> DictGet(config, "epochs", 1)]

UnifiedSystemInfo ==
    [success |-> TRUE, status |-> "ready", python_version |-> "sys.version",
     platform |-> "platform.system()", ml_available |-> ml_available,
     service |-> "unified_ml_service"]

ReadyLine == [status |-> "ready", service |-> "unified_ml_service"]

IsTrainAction(v, action) ==
    IF v = "simple" THEN action \in {"train_model", "train"}
    ELSE action = "train_model"

(***************************************************************************)
(* The command lines: `python ml_service.py <operation> <data>` and         *)
(* `python ml_optimizer.py <command> ...`.  An argument is a text; the      *)
(* record says what json.loads and int make of it.                          *)
(***************************************************************************)
NoExit == -1

Arg(text, valid_json, is_mapping, data, is_int, n) ==
    [text |-> text, valid_json |-> valid_json, is_mapping |-> is_mapping,
     data |-> data, is_int |-> is_int, n |-> n]

JsonObject(data) == Arg("{...}", TRUE, TRUE, data, FALSE, 0)
JsonList == Arg("[]", TRUE, FALSE, EmptyDict, FALSE, 0)
NotJson == Arg("{", FALSE, FALSE, EmptyDict, FALSE, 0)
Number(n) == Arg("n", TRUE, FALSE, EmptyDict, TRUE, n)
Word(text) == Arg(text, FALSE, FALSE, EmptyDict, FALSE, 0)

CliArgs(v) ==
    CASE v = "ml_service" ->
            {<< >>, <<Word("validate")>>, <<Word("validate"), NotJson>>,
             <<Word("validate"), JsonList>>,
             <<Word("train"), JsonObject([dataset_path |-> "data.txt"])>>,
             <<Word("inference"),
               JsonObject([model_path |-> "./models/m", prompt |-> "hi"])>>,
             <<Word("bogus"), JsonObject(EmptyDict)>>}
            \cup {<<Word("validate"), JsonObject(ValidateData(path))>> :
                     path \in {"data.txt", MissingPath, LockedPath, BinaryPath, NoPath}}
      [] v = "ml_optimizer" ->
            {<< >>, <<Word("optimize")>>, <<Word("validate")>>, <<Word("bogus")>>,
             <<Word("optimize"), JsonObject(EmptyDict), Number(100)>>,
             <<Word("optimize"), JsonObject(EmptyDict), Number(0)>>,
             <<Word("optimize"), NotJson, Number(100)>>,
             <<Word("optimize"), JsonObject(EmptyDict), Word("many")>>,
             <<Word("estimate"), Number(1000), JsonObject(EmptyDict)>>,
             <<Word("estimate"), Number(0), JsonObject(EmptyDict)>>}
            \cup {<<Word("validate"), Word(path)>> :
                     path \in {"data.txt", MissingPath, LockedPath, BinaryPath}}
      [] OTHER -> {<< >>}

\* a line of text that is not a serialized result
TextLine(text) == [text |-> text]

\* ml_service.train_model(data): every path through it ends in an error
\* result (Dataset is not defined without the ML packages,
\* DataCollatorForLanguageModeling is never imported)
ServiceTrain(ds, data, mlAvailable) ==
    IF ~IsMapping(data) THEN Caught("AttributeError")
    ELSE IF "dataset_path" \notin DOMAIN data THEN Caught("'dataset_path'")
    ELSE IF Suffix(data["dataset_path"]) # ".txt"
    THEN [error |-> "Only .txt files supported for training demo"]
    ELSE IF ~Readable(ds, data["dataset_path"]) THEN Caught("OSError")
    ELSE Caught("NameError")

\* ml_service.inference(data); no model is on disk
ServiceInference(data) ==
    IF ~IsMapping(data) THEN Caught("TypeError")
    ELSE IF "model_path" \notin DOMAIN data THEN Caught("'model_path'")
    ELSE IF "prompt" \notin DOMAIN data THEN Caught("'prompt'")
    ELSE [error |-> "Model not found"]

\* what a process that ends with an uncaught exception leaves: nothing on
\* stdout (the traceback goes to stderr), exit status 1
Crash == [out |-> << >>, exit |-> 1]
Exit(out, code) == [out |-> out, exit |-> code]

\* ml_service.main falls off its end after print(json.dumps(result))
ExitAfterResult(result) == 0

\* ml_service.main with arguments: what it prints and how it exits.
\* start_health_server prints its two lines first.
ServiceMain(ds, args, mlAvailable) ==
    LET health == <<TextLine("Health server started on port 8000"),
                    TextLine("Service ready")>>
    IN  IF Len(args) < 2
        THEN Exit(health \o <<[error |-> "Usage: python ml_service.py <operation> <data>"]>>, 1)
        ELSE IF ~args[2].valid_json
        THEN Exit(health \o <<[error |-> "Invalid JSON data"]>>, 1)
        ELSE LET operation == args[1].text
                 data == IF args[2].is_mapping THEN args[2].data ELSE NotAMapping
                 result ==
                     CASE operation = "validate" -> ServiceValidate(ds, data, mlAvailable)
                       [] operation = "train" -> ServiceTrain(ds, data, mlAvailable)
                       [] operation = "inference" -> ServiceInference(data)
                       [] OTHER -> [error |-> "Unknown operation"]
             IN  Exit(health \o <<result>>, ExitAfterResult(result))

\* json.dumps(validation_results): text_lengths.max() and .min() are
\* numpy.int64 values, which json cannot serialize
Serializable(report) == "max_text_length" \notin DOMAIN report.statistics

\* ml_optimizer's __main__ block with at least the command given
OptimizerMain(ds, args, mem) ==
    LET command == args[1].text
    IN  CASE command = "optimize" ->
               IF Len(args) < 3 THEN Crash                         \* IndexError
               ELSE IF ~args[2].valid_json THEN Crash              \* JSONDecodeError
               ELSE IF ~args[3].is_int THEN Crash                  \* ValueError
               ELSE LET r == optimize_training_config(NewOptimizer(mem),
                                                      args[2].data, args[3].n)
                    IN  IF r.raised THEN Crash ELSE Exit(<<r.value>>, 0)
          [] command = "validate" ->
               IF Len(args) < 2 THEN Crash                         \* IndexError
               ELSE LET report == validate_dataset_quality(ds, args[2].text)
                    IN  IF Serializable(report) THEN Exit(<<report>>, 0) ELSE Crash
          [] command = "estimate" ->
               IF Len(args) < 3 THEN Crash
               ELSE IF ~args[2].is_int THEN Crash
               ELSE IF ~args[3].valid_json THEN Crash
               ELSE LET r == estimate_training_time(args[2].n, args[3].data)
                    IN  IF r.raised THEN Crash ELSE Exit(<<r.value>>, 0)
          [] OTHER -> Exit(<< >>, 0)          \* no branch for the command

SvcInit ==
    /\ variant \in {"simple", "unified", "ml_service", "ml_optimizer"}
    /\ ml_available \in BOOLEAN
    \* ml_service_simple.py and ml_optimizer.py have no such flag
    /\ (variant \in {"simple", "ml_optimizer"} => ml_available = FALSE)
    /\ argv \in CliArgs(variant)
    /\ exitCode = NoExit
    /\ served = <<>>
    /\ seed \in 0..MaxSeed
    /\ rngDraws = 0
    /\ stdin = <<>>
    /\ stdinClosed = FALSE
    /\ stdout = <<>>
    /\ svcPc = CASE variant = "unified" -> "start"
                  [] variant = "simple" -> "idle"
                  [] OTHER -> "main"
    /\ svcReq = EmptyDict
    /\ epoch = 0
    /\ trainLoss = 0
    /\ runStart = 0
    /\ runState = "none"
    /\ runEnd = 0

SupInit ==
    /\ supPhase = "idle"
    /\ supRequest = Line(TRUE, TRUE, EmptyDict)
    /\ supCursor = 0
    /\ supRunStart = 0
    /\ supSaw = "nothing"
    /\ supProgress = 0
    /\ sent = 0

\* a result that is computed and never printed
EmitNothing(line) == stdout' = stdout

\* print(json.dumps(...)) and sys.stdout.flush(): one line, written at once
Emit(line) == stdout' = Append(stdout, line)

IsTrainRequest(v, line) ==
    /\ line.valid_json
    /\ line.is_mapping
    /\ IsTrainAction(v, DictGet(line.data, "action", NoAction))

\* ml_service_simple.main: the line printed for a request that is not
\* handed to train_model's loop
SimpleRespond(line) ==
    IF ~line.valid_json THEN ErrorResult("Invalid JSON input")
    ELSE IF ~line.is_mapping THEN ErrorResult("AttributeError")   \* data.get
    ELSE LET action == DictGet(line.data, "action", NoAction)
         IN  IF action \in {"train_model", "train"}
             THEN ErrorResult("'dataset_path'")    \* data['dataset_path']
             ELSE IF action \in {"validate_dataset", "validate"}
             THEN SimpleValidate(dataset, line.data)
             ELSE IF action = "get_system_info" THEN SimpleSystemInfo
             ELSE ErrorResult("Unknown action")

\* ml_service_unified.main: the line printed for a request
UnifiedRespond(line) ==
    IF ~line.valid_json THEN ErrorResult("Invalid JSON input")
    ELSE IF ~line.is_mapping THEN ErrorResult("AttributeError")   \* data.get
    ELSE LET operation == DictGet(line.data, "action", NoAction)
         IN  IF operation = "train_model" THEN UnifiedTrainModel(line.data)
             ELSE IF operation = "validate_dataset"
             THEN UnifiedValidate(dataset, line.data, ml_available)
             ELSE IF operation = "get_system_info" THEN UnifiedSystemInfo
             ELSE ErrorResult("Unknown operation")

\* ml_service_unified.main before its loop: the ready line
UnifiedReady ==
    /\ svcPc = "start"
    /\ Emit(ReadyLine)
    /\ svcPc' = "idle"
    /\ UNCHANGED <<variant, ml_available, seed, rngDraws, stdin, stdinClosed,
                   svcReq, epoch, trainLoss, runStart,
                   runState, runEnd>>
    /\ UNCHANGED <<monVars, optVars, supVars, valVars, cliVars>>

\* main's loop takes the next line of stdin and handles it; a training request
\* of the simple service with a dataset_path enters train_model's loop
ServeLine ==
    /\ svcPc = "idle"
    /\ stdin # <<>>
    /\ LET line == Head(stdin)
           training == IsTrainRequest(variant, line)
       IN  /\ stdin' = Tail(stdin)
           /\ IF variant = "simple" /\ training /\ "dataset_path" \in DOMAIN line.data
              THEN /\ svcPc' = "training"
                   /\ svcReq' = line.data
                   /\ epoch' = 1
                   /\ runStart' = Len(stdout)
                   /\ runState' = "running"
                   /\ runEnd' = 0
                   /\ UNCHANGED stdout
              ELSE /\ Emit(IF variant = "simple" THEN SimpleRespond(line)
                           ELSE UnifiedRespond(line))
                   /\ runStart' = IF training THEN Len(stdout) ELSE runStart
                   /\ runState' = IF training THEN "done" ELSE runState
                   /\ runEnd' = IF training THEN Len(stdout) + 1 ELSE runEnd
                   /\ UNCHANGED <<svcPc, svcReq, epoch>>
    /\ UNCHANGED <<variant, ml_available, seed, rngDraws, stdinClosed, trainLoss>>
    /\ served' = Append(served, Head(stdin))
    /\ UNCHANGED <<monVars, optVars, supVars, valVars, argv, exitCode>>

\* one iteration of train_model's loop: compute the loss, write the progress line
TrainEpoch ==
    /\ svcPc = "training"
    /\ LET l == LossStartTenths - epoch * LossStepTenths + UniformTenths(seed, rngDraws)
       IN  /\ Emit(ProgressEvent(epoch, l))
           /\ trainLoss' = l
    /\ rngDraws' = rngDraws + 1
    /\ IF epoch < TrainEpochs
       THEN epoch' = epoch + 1 /\ UNCHANGED svcPc
       ELSE svcPc' = "saving" /\ UNCHANGED epoch
    /\ UNCHANGED <<variant, ml_available, seed, stdin, stdinClosed, svcReq,
                   runStart,
                   runState, runEnd>>
    /\ UNCHANGED <<monVars, optVars, supVars, valVars, cliVars>>

\* train_model after the loop: the model file is written (os.makedirs, open and
\* json.dump may raise), train_model returns and main prints the result
TrainSave ==
    /\ svcPc = "saving"
    /\ \E saved \in BOOLEAN : Emit(SimpleTrainResult(saved, trainLoss))
    /\ svcPc' = "idle"
    /\ runState' = "done"
    /\ runEnd' = Len(stdout) + 1
    /\ UNCHANGED <<variant, ml_available, seed, rngDraws, stdin, stdinClosed,
                   svcReq, epoch, trainLoss, runStart>>
    /\ UNCHANGED <<monVars, optVars, supVars, valVars, cliVars>>

\* end of input: `for line in sys.stdin` ends, `if not line: break`
ServiceExit ==
    /\ svcPc = "idle"
    /\ stdin = <<>>
    /\ stdinClosed
    /\ svcPc' = "exited"
    /\ UNCHANGED <<variant, ml_available, seed, rngDraws, stdin, stdinClosed,
                   stdout, svcReq, epoch, trainLoss, runStart,
                   runState, runEnd>>
    /\ exitCode' = 0
    /\ UNCHANGED <<monVars, optVars, supVars, valVars, argv, served>>

\* one run of a command line, from start to exit.  Without arguments
\* ml_service.py stays up as a server and ml_optimizer.py does nothing.
CliRun ==
    /\ svcPc = "main"
    /\ IF variant = "ml_service" /\ argv = << >>
       THEN /\ stdout' = stdout \o <<TextLine("Health server started on port 8000"),
                                     TextLine("Service ready"),
                                     TextLine("Starting ML service in server mode...")>>
            /\ svcPc' = "sleeping"
            /\ UNCHANGED exitCode
       ELSE LET r == IF variant = "ml_service"
                     THEN ServiceMain(dataset, argv, ml_available)
                     ELSE IF argv = << >> THEN Exit(<< >>, 0)
                     ELSE OptimizerMain(dataset, argv, hostMemory)
            IN  /\ stdout' = stdout \o r.out
                /\ exitCode' = r.exit
                /\ svcPc' = "exited"
    /\ UNCHANGED <<variant, ml_available, seed, rngDraws, stdin, stdinClosed,
                   svcReq, epoch, trainLoss, runStart, runState, runEnd>>
    /\ UNCHANGED <<monVars, optVars, supVars, valVars, argv, served>>

\* the process is killed from outside (out of memory, a signal)
ProcessKilled ==
    /\ svcPc \notin {"exited", "dead"}
    /\ svcPc' = "dead"
    /\ UNCHANGED <<variant, ml_available, seed, rngDraws, stdin, stdinClosed,
                   stdout, svcReq, epoch, trainLoss, runStart,
                   runState, runEnd>>
    /\ UNCHANGED <<monVars, optVars, supVars, valVars, cliVars>>

(***************************************************************************)
(* The supervising caller: it sends one request at a time and reads the     *)
(* process's output line by line.                                           *)
(***************************************************************************)
\* What a line read while a request is awaited means to the supervisor.
ClassifyLine(isTraining, line) ==
    IF "type" \in DOMAIN line /\ line["type"] = "training_progress" THEN "progress"
    ELSE IF line = ReadyLine THEN "ignored"
    ELSE IF ~isTraining THEN "answered"
    ELSE IF "success" \in DOMAIN line /\ line["success"] = TRUE THEN "succeeded"
    ELSE "failed"

\* a consumer that takes a run whose progress reached 100 as finished
ClassifyEndByProgress(progress) == IF progress = 100 THEN "succeeded" ELSE "failed"

\* What the end of the stream, or a stall past the timeout, means for the
\* awaited run, given the last progress value read.
ClassifyEnd(progress) == "failed"

SupervisorSend ==
    /\ supPhase # "awaiting"
    /\ sent < MaxRequests
    /\ ~stdinClosed
    /\ svcPc \notin {"exited", "dead"}
    /\ \E line \in RequestLines :
          /\ stdin' = Append(stdin, line)
          /\ supRequest' = line
    /\ supPhase' = "awaiting"
    /\ supRunStart' = supCursor
    /\ supSaw' = "nothing"
    /\ supProgress' = 0
    /\ sent' = sent + 1
    /\ UNCHANGED <<variant, ml_available, seed, rngDraws, stdinClosed, stdout,
                   svcPc, svcReq, epoch, trainLoss, runStart,
                   runState, runEnd, supCursor>>
    /\ UNCHANGED <<monVars, optVars, valVars, cliVars>>

SupervisorRead ==
    /\ supCursor < Len(stdout)
    /\ supCursor' = supCursor + 1
    /\ LET line == stdout[supCursor + 1]
           what == ClassifyLine(IsTrainRequest(variant, supRequest), line)
       IN  IF supPhase # "awaiting" \/ what = "ignored"
           THEN UNCHANGED <<supPhase, supSaw, supProgress>>
           ELSE IF what = "progress"
           THEN /\ supProgress' = line["progress"]
                /\ UNCHANGED <<supPhase, supSaw>>
           ELSE /\ supPhase' = what
                /\ supSaw' = "terminal"
                /\ UNCHANGED supProgress
    /\ UNCHANGED <<supRequest, supRunStart, sent>>
    /\ UNCHANGED <<monVars, optVars, svcVars, valVars, cliVars>>

\* the stream ended: the process is gone and every line it wrote has been read
SupervisorEof ==
    /\ supPhase = "awaiting"
    /\ svcPc \in {"exited", "dead"}
    /\ supCursor = Len(stdout)
    /\ supPhase' = ClassifyEnd(supProgress)
    /\ supSaw' = "eof"
    /\ UNCHANGED <<supRequest, supCursor, supRunStart, supProgress, sent>>
    /\ UNCHANGED <<monVars, optVars, svcVars, valVars, cliVars>>

\* no further event within the window: the supervisor terminates the process
SupervisorTimeout ==
    /\ supPhase = "awaiting"
    /\ svcPc \notin {"exited", "dead"}
    /\ supCursor = Len(stdout)
    /\ supPhase' = ClassifyEnd(supProgress)
    /\ supSaw' = "timeout"
    /\ svcPc' = "dead"
    /\ UNCHANGED <<supRequest, supCursor, supRunStart, supProgress, sent>>
    /\ UNCHANGED <<variant, ml_available, seed, rngDraws, stdin, stdinClosed,
                   stdout, svcReq, epoch, trainLoss, runStart,
                   runState, runEnd>>
    /\ UNCHANGED <<monVars, optVars, valVars, cliVars>>

SupervisorClose ==
    /\ supPhase # "awaiting"
    /\ ~stdinClosed
    /\ stdinClosed' = TRUE
    /\ UNCHANGED <<variant, ml_available, seed, rngDraws, stdin, stdout, svcPc,
                   svcReq, epoch, trainLoss, runStart,
                   runState, runEnd>>
    /\ UNCHANGED <<monVars, optVars, supVars, valVars, cliVars>>

SvcNext ==
    \/ UnifiedReady
    \/ CliRun
    \/ ServeLine
    \/ TrainEpoch
    \/ TrainSave
    \/ ServiceExit
    \/ ProcessKilled
    \/ SupervisorSend
    \/ SupervisorRead
    \/ SupervisorEof
    \/ SupervisorTimeout
    \/ SupervisorClose

(***************************************************************************)
(* The specifications.  The monitor, the optimizer and the service are      *)
(* separate objects with no shared state: each specification runs one of    *)
(* them and leaves the others as constructed.                               *)
(***************************************************************************)
OptIdle == hostMemory = 0 /\ optimizer = NoOptimizer /\ optRet = NoCall
SvcIdle == SvcInit /\ variant = "simple" /\ seed = 0

\* the dataset the services find on disk: five question|answer lines
ServiceDataset ==
    [path |-> "data.txt", header |-> FALSE,
     lines |-> [t \in LineTexts |-> IF t = "q|a" THEN 5 ELSE 0]]
ValIdle == dataset = ServiceDataset /\ valRet = NoValidation

InitMonitor == MonInit /\ OptIdle /\ SvcIdle /\ SupInit /\ ValIdle
InitOptimizer == MonInit /\ OptInit /\ SvcIdle /\ SupInit /\ ValIdle
InitService == MonInit /\ OptIdle /\ SvcInit /\ SupInit /\ ValIdle
InitValidator == MonInit /\ OptIdle /\ SvcIdle /\ SupInit /\ ValInit

SpecMonitor == InitMonitor /\ [][MonNext]_vars
SpecOptimizer == InitOptimizer /\ [][OptNext]_vars
SpecService == InitService /\ [][SvcNext]_vars
SpecValidator == InitValidator /\ [][ValNext]_vars

(***************************************************************************)
(* C1: after start_monitoring followed by N >= 1 log_metrics calls,         *)
(* best_loss equals the minimum of the N losses logged since that           *)
(* start_monitoring, in every run of the monitor.                           *)
(***************************************************************************)
C1_BestLossIsRunMinimum ==
    (start_time # NoTime /\ Len(metrics_history) >= 1)
        => best_loss = Fin(SeqMin(Losses(metrics_history)))

(***************************************************************************)
(* C2: start_monitoring, called in any state of the monitor, leaves the     *)
(* metrics history empty, sets the start time and resets best_loss to       *)
(* +infinity.                                                               *)
(***************************************************************************)
C2_StartMonitoringResets ==
    monRet.op = "start_monitoring"
        => /\ metrics_history = <<>>
           /\ start_time # NoTime
           /\ best_loss = PosInf

(***************************************************************************)
(* C3: every configuration returned by optimize, for every raw config,      *)
(* dataset_size and amount of available memory, has 1 <= batch_size <= 32   *)
(* and gradient_accumulation_steps >= 1.                                    *)
(***************************************************************************)
C3_ResolvedConfigInRange ==
    (optRet.op = "optimize" /\ ~optRet.result.raised)
        => /\ 1 <= optRet.result.value["batch_size"]
           /\ optRet.result.value["batch_size"] <= 32
           /\ optRet.result.value["gradient_accumulation_steps"] >= 1

(***************************************************************************)
(* C4: optimize resolves batch_size by tier: dataset_size < 100 gives       *)
(* min(4, dataset_size); 100 <= dataset_size < 1000 gives min(8,            *)
(* optimal_batch_size); dataset_size >= 1000 gives optimal_batch_size;      *)
(* whatever batch_size the caller supplied.                                 *)
(***************************************************************************)
C4_BatchSizeByTier ==
    optRet.op = "optimize"
        => /\ ~optRet.result.raised
           /\ optRet.result.value["batch_size"] =
                IF optRet.dataset_size < 100
                THEN (IF optRet.dataset_size < 4 THEN optRet.dataset_size ELSE 4)
                ELSE IF optRet.dataset_size < 1000
                THEN (IF optimizer.optimal_batch_size < 8
                      THEN optimizer.optimal_batch_size ELSE 8)
                ELSE optimizer.optimal_batch_size

(***************************************************************************)
(* C5: degenerate inputs are clamped instead of failing: optimize and       *)
(* estimate with dataset_size = 0, and the profiler with zero available     *)
(* memory, return normally, and the resolved batch_size is >= 1.            *)
(***************************************************************************)
C5_DegeneraciesClamped ==
    /\ (optRet.op = "optimize" /\ optRet.dataset_size = 0)
          => (~optRet.result.raised /\ optRet.result.value["batch_size"] >= 1)
    /\ (optRet.op = "estimate" /\ optRet.dataset_size = 0)
          => ~optRet.result.raised
    /\ (optimizer.constructed /\ optimizer.available_memory = 0)
          => optimizer.optimal_batch_size >= 1

(***************************************************************************)
(* C6: in the production configuration, whenever available memory is below  *)
(* 4 GiB the returned config has batch_size = 1,                            *)
(* gradient_accumulation_steps = 8, mixed precision on, gradient            *)
(* checkpointing on and the 8-bit optimizer, whatever the tiering chose.    *)
(***************************************************************************)
C6_LowMemoryOverride ==
    (/\ optRet.op = "production"
     /\ ~optRet.result.raised
     /\ optRet.memNow < 4 * MemUnitsPerGiB)
        => /\ optRet.result.value["batch_size"] = 1
           /\ optRet.result.value["gradient_accumulation_steps"] = 8
           /\ optRet.result.value["fp16"] = TRUE
           /\ optRet.result.value["gradient_checkpointing"] = TRUE
           /\ "optim" \in DOMAIN optRet.result.value
           /\ optRet.result.value["optim"] = "adamw_8bit"

(***************************************************************************)
(* C7: every optimize call derives the batch size and the mixed-precision   *)
(* flag of its result from the memory available at that call, never from    *)
(* an earlier reading.                                                      *)
(***************************************************************************)
C7_SnapshotPerCall ==
    (optRet.op = "optimize" /\ ~optRet.result.raised)
        => /\ optRet.result.value["fp16"] = (optRet.memNow < 8 * MemUnitsPerGiB)
           /\ optRet.result.value["batch_size"] =
                TierBatchSize(_calculate_optimal_batch_size(optRet.memNow),
                              optRet.dataset_size)

(***************************************************************************)
(* The lines of the latest training run on the stream: from the first line  *)
(* written after the request was taken to the printed result (or, while     *)
(* the run is going on, to the last line written so far).                   *)
(***************************************************************************)
RunLines ==
    SubSeq(stdout, runStart + 1, IF runState = "done" THEN runEnd ELSE Len(stdout))

IsProgress(e) == "type" \in DOMAIN e /\ e["type"] = "training_progress"
IsTerminal(e) == "success" \in DOMAIN e \/ "error" \in DOMAIN e

IsCompletion(e) ==
    /\ "success" \in DOMAIN e
    /\ e["success"] = TRUE
    /\ "model_path" \in DOMAIN e
    /\ ("final_loss" \in DOMAIN e \/ "training_loss" \in DOMAIN e)
    /\ "epochs_completed" \in DOMAIN e

IsErrorEvent(e) ==
    /\ "success" \in DOMAIN e
    /\ e["success"] = FALSE
    /\ "error" \in DOMAIN e

(***************************************************************************)
(* C8: for every training run, the stream contains exactly one terminal     *)
(* event, it is the last event of the run and follows all its progress      *)
(* events; it is a completion carrying success=true, the model location,    *)
(* the final loss and the epochs completed, or an error carrying            *)
(* success=false and an error message.                                      *)
(***************************************************************************)
C8_OneWellFormedTerminalEvent ==
    runState = "done"
        => /\ Len(RunLines) >= 1
           /\ \A i \in 1..(Len(RunLines) - 1) :
                 IsProgress(RunLines[i]) /\ ~IsTerminal(RunLines[i])
           /\ IsTerminal(RunLines[Len(RunLines)])
           /\ (IsCompletion(RunLines[Len(RunLines)])
               \/ IsErrorEvent(RunLines[Len(RunLines)]))

(***************************************************************************)
(* C9: within one training run every progress value emitted lies in 0..100  *)
(* and is at least the progress value of the event emitted before it, and   *)
(* the events are on the stream in emission order, one per line (the k-th   *)
(* line of the run is the event of the k-th epoch).                         *)
(***************************************************************************)
C9_ProgressMonotone ==
    runState # "none"
        => \A k \in 1..Len(RunLines) :
              IsProgress(RunLines[k])
                 => /\ RunLines[k]["progress"] \in 0..100
                    /\ RunLines[k]["epoch"] = k
                    /\ (k > 1 => /\ IsProgress(RunLines[k - 1])
                                 /\ RunLines[k - 1]["progress"]
                                       <= RunLines[k]["progress"])

\* a run that wrote all ten progress events and then its result
C9_Witness ==
    /\ runState = "done"
    /\ Len(RunLines) = TrainEpochs + 1
    /\ IsProgress(RunLines[TrainEpochs])
    /\ RunLines[TrainEpochs]["progress"] = 100
    /\ RunLines[1]["progress"] = 10

(***************************************************************************)
(* C10: the consumer classifies a run as failed whenever the stream ends,   *)
(* or stalls past the timeout, without a terminal event having been         *)
(* received; it never records success unless an explicit terminal success   *)
(* event was read.                                                          *)
(***************************************************************************)
C10_NoTerminalMeansFailed ==
    /\ supSaw \in {"eof", "timeout"} => supPhase = "failed"
    /\ supPhase = "succeeded"
          => \E i \in (supRunStart + 1)..supCursor :
                "success" \in DOMAIN stdout[i] /\ stdout[i]["success"] = TRUE

\* the process died after the last progress event (progress 100) and before
\* the result: the supervisor read everything and met the end of the stream
C10_Witness ==
    /\ supSaw = "eof"
    /\ supPhase = "failed"
    /\ supProgress = 100
    /\ svcPc = "dead"

(***************************************************************************)
(* The monitor's history as the claims about issue detection see it.        *)
(***************************************************************************)
IssuesReturned == monRet.op = "detect_training_issues"
IssueSet == {monRet.value[i] : i \in 1..Len(monRet.value)}
LastFive == (Len(metrics_history) - 4)..Len(metrics_history)
LastFiveLosses == {metrics_history[i].loss : i \in LastFive}
Greatest(S) == CHOOSE x \in S : \A y \in S : y <= x
Least(S) == CHOOSE x \in S : \A y \in S : x <= y
Rises ==
    {i \in LastFive : i - 1 \in LastFive
                      /\ metrics_history[i].loss > metrics_history[i - 1].loss}
ExplosionApplies ==
    \E i \in LastFive : metrics_history[i].loss > 2 * metrics_history[1].loss
PlateauApplies == Greatest(LastFiveLosses) - Least(LastFiveLosses) < 10
OscillationApplies == Cardinality(Rises) >= 3

(***************************************************************************)
(* C11: detect_training_issues returns an empty list for every metrics      *)
(* history with fewer than 5 samples, whatever the loss values are.         *)
(***************************************************************************)
C11_FewSamplesNoIssues ==
    (IssuesReturned /\ Len(metrics_history) < 5) => monRet.value = <<>>

\* four samples, the last of them above twice the first, and no issue
C11_Witness ==
    /\ IssuesReturned
    /\ Len(metrics_history) = 4
    /\ metrics_history[4].loss > 2 * metrics_history[1].loss
    /\ monRet.value = <<>>

(***************************************************************************)
(* C12: with at least 5 samples, detect_training_issues reports the plateau *)
(* issue exactly when max(last 5 losses) - min(last 5 losses) < 0.001; for  *)
(* the losses 1.000, 1.0005, 0.9998, 1.0002, 0.9999 (the first being the    *)
(* first loss of the run) it reports plateau and neither explosion nor      *)
(* oscillation.                                                             *)
(***************************************************************************)
C12_PlateauRule ==
    (IssuesReturned /\ Len(metrics_history) >= 5)
        => /\ ("plateau" \in IssueSet) <=> PlateauApplies
           /\ Losses(metrics_history) = <<10000, 10005, 9998, 10002, 9999>>
                 => monRet.value = <<"plateau">>

\* the five losses of the scenario were logged and judged
C12_Witness ==
    /\ IssuesReturned
    /\ Losses(metrics_history) = <<10000, 10005, 9998, 10002, 9999>>
    /\ monRet.value = <<"plateau">>

(***************************************************************************)
(* C13: with at least 5 samples, detect_training_issues reports the loss    *)
(* explosion issue exactly when at least one of the last 5 losses is        *)
(* strictly greater than twice the first loss recorded in the run (the      *)
(* first sample of the whole history, not of the 5-sample window).          *)
(***************************************************************************)
C13_ExplosionRule ==
    (IssuesReturned /\ Len(metrics_history) >= 5)
        => (("explosion" \in IssueSet) <=> ExplosionApplies)

\* six samples: a loss of the window exceeds twice the run's first loss but
\* none exceeds twice the window's first loss
C13_Witness ==
    /\ IssuesReturned
    /\ Len(metrics_history) = 6
    /\ "explosion" \in IssueSet
    /\ \A i \in LastFive : metrics_history[i].loss <= 2 * metrics_history[2].loss

(***************************************************************************)
(* C14: with at least 5 samples, detect_training_issues reports the         *)
(* oscillation issue exactly when at least 3 of the 4 consecutive           *)
(* differences between the last 5 losses are strictly positive; all issues  *)
(* that apply are returned together, each at most once, in the order        *)
(* explosion, plateau, oscillation.                                         *)
(***************************************************************************)
C14_OscillationRuleAndOrder ==
    (IssuesReturned /\ Len(metrics_history) >= 5)
        => /\ ("oscillation" \in IssueSet) <=> OscillationApplies
           /\ monRet.value =
                 (IF ExplosionApplies THEN <<"explosion">> ELSE <<>>)
                 \o (IF PlateauApplies THEN <<"plateau">> ELSE <<>>)
                 \o (IF OscillationApplies THEN <<"oscillation">> ELSE <<>>)

\* two issues apply at once and come back in order
C14_Witness ==
    /\ IssuesReturned
    /\ Len(metrics_history) >= 5
    /\ monRet.value = <<"explosion", "oscillation">>

(***************************************************************************)
(* C15: the metrics history is append-only within a run: each log_metrics   *)
(* call appends exactly one sample and leaves every earlier sample          *)
(* unchanged; get_training_summary and detect_training_issues leave the     *)
(* history, best_loss and the start time unchanged; only start_monitoring   *)
(* empties the history.                                                     *)
(***************************************************************************)
C15_HistoryStep ==
    /\ metrics_history' # metrics_history
          => \/ /\ monRet'.op = "start_monitoring"
                /\ metrics_history' = <<>>
             \/ /\ monRet'.op = "log_metrics"
                /\ Len(metrics_history') = Len(metrics_history) + 1
                /\ SubSeq(metrics_history', 1, Len(metrics_history)) = metrics_history
    /\ monRet'.op \in {"get_training_summary", "detect_training_issues"}
          => UNCHANGED <<metrics_history, best_loss, start_time>>
    /\ (monRet'.op = "log_metrics" /\ ~monRet'.raised /\ now' = now)
          => Len(metrics_history') = Len(metrics_history) + 1

C15_AppendOnly == [][C15_HistoryStep]_vars

\* a summary was taken of a run with several different samples
C15_Witness ==
    /\ monRet.op = "get_training_summary"
    /\ Len(metrics_history) >= 3
    /\ metrics_history[1] # metrics_history[2]
    /\ best_loss # PosInf

(***************************************************************************)
(* C16: log_metrics is accepted only in the monitoring state: called on a   *)
(* monitor on which start_monitoring has not been called, it fails and      *)
(* leaves the metrics history and best_loss unchanged.                      *)
(***************************************************************************)
C16_LogBeforeStartFails ==
    /\ monRet.op = "log_metrics" => (monRet.raised <=> start_time = NoTime)
    /\ start_time = NoTime => (metrics_history = <<>> /\ best_loss = PosInf)

\* log_metrics was called on a monitor that was never started
C16_Witness ==
    /\ monRet.op = "log_metrics"
    /\ monRet.raised
    /\ start_time = NoTime

(***************************************************************************)
(* What the claims about the validators read off a call and a response.     *)
(***************************************************************************)
ValidateCalled == valRet.fn # "none"
CalledPath ==
    IF valRet.fn = "validate_dataset_quality" THEN valRet.arg
    ELSE IF "dataset_path" \in DOMAIN valRet.arg THEN valRet.arg["dataset_path"]
    ELSE NoPath
SupportedSuffixes == {".csv", ".txt", ".json"}
StructuredFailure(r) ==
    \/ "valid" \in DOMAIN r /\ r["valid"] = FALSE
    \/ "error" \in DOMAIN r

(***************************************************************************)
(* C17: validate called on a dataset path whose extension is not one of     *)
(* the supported formats returns a report with valid=false and a            *)
(* descriptive warning, without raising to the caller.                      *)
(***************************************************************************)
C17_UnsupportedExtensionInvalid ==
    (ValidateCalled /\ CalledPath # NoPath
                    /\ Suffix(CalledPath) \notin SupportedSuffixes)
        => /\ "valid" \in DOMAIN valRet.result
           /\ valRet.result["valid"] = FALSE
           /\ "warnings" \in DOMAIN valRet.result
           /\ valRet.result["warnings"] # <<>>

(***************************************************************************)
(* C18: in every validator variant, validate called with a missing,         *)
(* nonexistent or unreadable dataset path returns a structured result       *)
(* (valid=false or an error field); no exception propagates to the caller   *)
(* and the request loop keeps serving later requests.                       *)
(***************************************************************************)
IsResponse(e) == ~IsProgress(e) /\ e # ReadyLine /\ "text" \notin DOMAIN e
Responses == SelectSeq(stdout, IsResponse)
BadPathData(data) ==
    \/ "dataset_path" \notin DOMAIN data
    \/ data["dataset_path"] \in {MissingPath, LockedPath}
IsBadValidateLine(line) ==
    /\ line.valid_json
    /\ line.is_mapping
    /\ "action" \in DOMAIN line.data
    /\ line.data["action"] \in
          (IF variant = "simple" THEN {"validate_dataset", "validate"}
           ELSE {"validate_dataset"})
    /\ BadPathData(line.data)
IsBadValidateCommand ==
    /\ Len(argv) = 2
    /\ argv[1].text = "validate"
    /\ IF variant = "ml_service"
       THEN argv[2].valid_json /\ argv[2].is_mapping /\ BadPathData(argv[2].data)
       ELSE argv[2].text \in {MissingPath, LockedPath}

C18_BadPathStructuredResult ==
    /\ variant \in {"simple", "unified"}
          => /\ \A k \in 1..Len(Responses) :
                   IsBadValidateLine(served[k]) => StructuredFailure(Responses[k])
             /\ svcPc = "idle" => Len(Responses) = Len(served)
    /\ (variant \in {"ml_service", "ml_optimizer"}
          /\ svcPc = "exited" /\ IsBadValidateCommand)
          => /\ exitCode = 0
             /\ stdout # <<>>
             /\ StructuredFailure(stdout[Len(stdout)])

\* the loop answered a validate request with a bad path and then served
\* another request
C18_Witness ==
    /\ variant = "simple"
    /\ svcPc = "idle"
    /\ Len(served) = 2
    /\ IsBadValidateLine(served[1])
    /\ "dataset_path" \in DOMAIN served[1].data
    /\ Len(Responses) = 2
    /\ "error" \in DOMAIN Responses[1]
    /\ "python_version" \in DOMAIN Responses[2]

(***************************************************************************)
(* C19: validate on a line-oriented text dataset of n lines reports sample  *)
(* count n and appends, independently for each of the five table conditions *)
(* that holds (count < 10, count < 100, duplicates > 0, max length > 2000,  *)
(* min length < 10), that condition's warning together with its             *)
(* recommendation; so n = 5 yields both the very-small and the small        *)
(* warning, and recommendations never outnumber warnings.  Lengths are      *)
(* those of the lines as read, newline included.                            *)
(***************************************************************************)
LinesPresent == {t \in LineTexts : dataset.lines[t] > 0}
TextLineCount == SumOver(dataset.lines, LineTexts)
DuplicateLines == TextLineCount - Cardinality(LinesPresent)
ExpectedWarnings ==
    (IF TextLineCount < 10 THEN <<"Very small dataset (< 10 samples)">> ELSE <<>>)
    \o (IF TextLineCount < 100 THEN <<"Small dataset (< 100 samples)">> ELSE <<>>)
    \o (IF DuplicateLines > 0 THEN <<"Found duplicate samples">> ELSE <<>>)
    \o (IF \E t \in LinesPresent : LineLength(t) + 1 > 2000
        THEN <<"Some texts are very long (> 2000 chars)">> ELSE <<>>)
    \o (IF \E t \in LinesPresent : LineLength(t) + 1 < 10
        THEN <<"Some texts are very short (< 10 chars)">> ELSE <<>>)

C19_TextDatasetWarnings ==
    /\ valRet.fn = "validate_dataset_quality"
          => Len(valRet.result.recommendations) <= Len(valRet.result.warnings)
    /\ (valRet.fn = "validate_dataset_quality"
          /\ valRet.arg = "data.txt" /\ dataset.path = "data.txt")
          => /\ valRet.result.valid
             /\ valRet.result.statistics["total_samples"] = TextLineCount
             /\ valRet.result.warnings = ExpectedWarnings
             /\ Len(valRet.result.recommendations) = Len(valRet.result.warnings)
             /\ TextLineCount = 5
                   => /\ valRet.result.warnings[1] = "Very small dataset (< 10 samples)"
                      /\ valRet.result.warnings[2] = "Small dataset (< 100 samples)"

\* a text dataset of five lines was validated
C19_Witness ==
    /\ valRet.fn = "validate_dataset_quality"
    /\ valRet.arg = "data.txt"
    /\ dataset.path = "data.txt"
    /\ TextLineCount = 5
    /\ valRet.result.statistics["total_samples"] = 5
    /\ Len(valRet.result.warnings) >= 2

(***************************************************************************)
(* C20: every command-line invocation (ml_optimizer optimize, validate,     *)
(* estimate and ml_service validate, train, inference) prints exactly one   *)
(* serialized result and exits 0 on success; on failure (malformed          *)
(* argument, unknown command or operation, or an operation that reports an  *)
(* error) it prints a structured error payload and exits with a non-zero    *)
(* status.                                                                  *)
(***************************************************************************)
C20_OneResultAndExitStatus ==
    (variant \in {"ml_service", "ml_optimizer"} /\ svcPc = "exited" /\ argv # << >>)
        => /\ Len(stdout) = 1
           /\ "text" \notin DOMAIN stdout[1]
           /\ (exitCode = 0) <=> ("error" \notin DOMAIN stdout[1])

(***************************************************************************)
(* The time estimate as the claims state it: the caller's batch_size,       *)
(* max_epochs and model family with their defaults, and the exact product   *)
(* as a numerator over 320000.                                              *)
(***************************************************************************)
EstimateReturned == optRet.op = "estimate" /\ ~optRet.result.raised
GivenBatchSize ==
    IF "batch_size" \in DOMAIN optRet.config THEN optRet.config["batch_size"] ELSE 8
GivenEpochs ==
    IF "max_epochs" \in DOMAIN optRet.config THEN optRet.config["max_epochs"] ELSE 3
GivenBaseCenti ==
    IF "model_type" \notin DOMAIN optRet.config THEN 10
    ELSE IF optRet.config["model_type"] = "distilbert" THEN 8
    ELSE IF optRet.config["model_type"] = "tinybert" THEN 5
    ELSE 10
Abs(x) == IF x < 0 THEN 0 - x ELSE x
\* epochs x base_time x (1 - 0.3 x batch_size/32), times 32000
PerSample32000 == GivenEpochs * GivenBaseCenti * (320 - 3 * GivenBatchSize)
\* dataset_size x epochs x base_time x (1 - 0.3 x batch_size/32) x 1.2,
\* times 320000
TotalSeconds320000 == optRet.dataset_size * PerSample32000 * 12

C22_EfficiencyCapped ==
    (/\ EstimateReturned
     /\ GivenBatchSize >= 1
     /\ GivenEpochs >= 1
     /\ optRet.dataset_size >= 1)
        => LET uncapped == optRet.dataset_size * GivenEpochs * GivenBaseCenti
               pre == optRet.result.value["pre_overhead_num"]
           IN  /\ 224 * uncapped <= pre
               /\ pre <= 320 * uncapped
               /\ pre > 0
               /\ optRet.result.value["estimated_seconds"] >= 0

(***************************************************************************)
(* C23: optimal_batch_size equals min(32, max(1, floor(0.6 x                *)
(* available_memory_GB / 0.05))) for every amount of available memory; it   *)
(* lies in 1..32, is 1 for zero memory, and is non-decreasing in the        *)
(* available memory.  (0.6 / 0.05 = 12, so the quotient is 12 x             *)
(* available_memory_GB.)                                                    *)
(***************************************************************************)
C23_OptimalBatchSizeFormula ==
    optimizer.constructed
        => LET floorOfQuotient == (12 * optimizer.available_memory) \div MemUnitsPerGiB
               atLeastOne == IF floorOfQuotient < 1 THEN 1 ELSE floorOfQuotient
               claimed == IF atLeastOne > 32 THEN 32 ELSE atLeastOne
           IN  /\ optimizer.optimal_batch_size = claimed
               /\ optimizer.optimal_batch_size \in 1..32
               /\ optimizer.available_memory = 0 => optimizer.optimal_batch_size = 1
               /\ \A less \in MemLevels :
                      less <= optimizer.available_memory
                          => _calculate_optimal_batch_size(less)
                                 <= optimizer.optimal_batch_size

OptimizeReturned == optRet.op = "optimize" /\ ~optRet.result.raised
ResolvedBatchSize == optRet.result.value["batch_size"]
AccumulationSteps == optRet.result.value["gradient_accumulation_steps"]

(***************************************************************************)
(* C24: optimize sets gradient_accumulation_steps = floor(8 / batch_size)   *)
(* when the resolved batch_size is below 8 and 1 otherwise; for every       *)
(* resolved batch_size in 1..7 the effective batch batch_size x             *)
(* gradient_accumulation_steps is at most 8 and at least 5.                 *)
(***************************************************************************)
C24_AccumulationSteps ==
    OptimizeReturned
        => /\ ResolvedBatchSize >= 8 => AccumulationSteps = 1
           /\ (0 < ResolvedBatchSize /\ ResolvedBatchSize < 8)
                  => /\ AccumulationSteps * ResolvedBatchSize <= 8
                     /\ 8 < (AccumulationSteps + 1) * ResolvedBatchSize
           /\ ResolvedBatchSize < 0
                  => /\ AccumulationSteps * ResolvedBatchSize >= 8
                     /\ 8 > (AccumulationSteps + 1) * ResolvedBatchSize
           /\ ResolvedBatchSize \in 1..7
                  => /\ ResolvedBatchSize * AccumulationSteps <= 8
                     /\ ResolvedBatchSize * AccumulationSteps >= 5

\* the least effective batch: batch_size 5, one accumulation step
C24_Witness ==
    /\ OptimizeReturned
    /\ ResolvedBatchSize = 5
    /\ AccumulationSteps = 1

\* the caller's learning_rate, or 5e-5 when the caller gives none
GivenBaseLr ==
    IF "learning_rate" \in DOMAIN optRet.config
    THEN optRet.config["learning_rate"] ELSE 50 * LrUnitsPerMicro

(***************************************************************************)
(* C25: optimize sets learning_rate = base_lr x batch_size / 8, where       *)
(* base_lr is the caller's learning_rate or 5e-5 when the caller gives      *)
(* none; for every positive base_lr and every dataset_size the resolved     *)
(* learning_rate is strictly positive.                                      *)
(***************************************************************************)
C25_LearningRateScaled ==
    (optRet.op = "optimize" /\ GivenBaseLr > 0)
        => /\ ~optRet.result.raised
           /\ 8 * optRet.result.value["learning_rate"]
                  = GivenBaseLr * optRet.result.value["batch_size"]
           /\ optRet.result.value["learning_rate"] > 0

(***************************************************************************)
(* C26: get_training_summary returns an empty result when the history is    *)
(* empty; for every non-empty history, whatever the logged losses are, it   *)
(* returns total_steps = the number of samples, final_loss = the last loss, *)
(* best_loss = the least loss of the run, and loss_improvement =            *)
(* (first_loss - last_loss) / first_loss x 100.                             *)
(***************************************************************************)
C26_TrainingSummary ==
    monRet.op = "get_training_summary"
        => /\ ~monRet.raised
           /\ metrics_history = <<>> => DOMAIN monRet.value = {}
           /\ metrics_history # <<>>
                  => LET losses == Losses(metrics_history)
                         first == losses[1]
                         last == losses[Len(losses)]
                         improvement == monRet.value["loss_improvement"]
                     IN  /\ monRet.value["total_steps"] = Len(metrics_history)
                         /\ monRet.value["final_loss"] = last
                         /\ monRet.value["best_loss"] = Fin(Least({losses[i] : i \in 1..Len(losses)}))
                         /\ first # 0
                         \* the quotient, as numerator and denominator
                         /\ improvement = <<(first - last) * 100, first>>

\* the operations the unified service knows, and a line it cannot serve
UnifiedOperations ==
    {"health_check", "validate_dataset", "train_model", "test_model", "inference",
     "get_system_info", "extract_pdf_text", "process_ocr", "preprocess_image"}
IsUnservable(line) ==
    \/ ~line.valid_json
    \/ ~line.is_mapping
    \/ "action" \notin DOMAIN line.data
    \/ line.data["action"] \notin UnifiedOperations

PdfParagraphs == SumOver(NonBlank(dataset.lines), LineTexts)
PdfValidated ==
    /\ valRet.fn = "ml_service_unified"
    /\ IsMapping(valRet.arg)
    /\ "dataset_path" \in DOMAIN valRet.arg
    /\ valRet.arg["dataset_path"] = PdfPath
    /\ dataset.path = PdfPath

(***************************************************************************)
(* C28: UnifiedMLService.validate_dataset on an existing .pdf file whose    *)
(* text can be extracted returns valid=true with sample_count equal to the  *)
(* number of non-empty blank-line-separated paragraphs of the extracted     *)
(* text, and returns the 'could not extract text' error only when           *)
(* extraction yields no text.                                               *)
(***************************************************************************)
C28_PdfParagraphsCounted ==
    PdfValidated
        => IF PdfParagraphs > 0
           THEN /\ "valid" \in DOMAIN valRet.result
                /\ valRet.result["valid"] = TRUE
                /\ valRet.result["sample_count"] = PdfParagraphs
           ELSE /\ DOMAIN valRet.result = {"error"}
                /\ valRet.result["error"] = "Could not extract text from PDF file"

\* the keys optimize_training_config assigns
OptimizerKeys ==
    {"batch_size", "gradient_accumulation_steps", "learning_rate", "fp16",
     "gradient_checkpointing", "logging_steps", "save_steps",
     "load_best_model_at_end", "evaluation_strategy", "eval_steps",
     "save_total_limit", "metric_for_best_model"}

(***************************************************************************)
(* C29: optimize does not modify the raw config passed by the caller        *)
(* (whether it returns or raises), and every key of the raw config that     *)
(* the optimizer does not itself set appears in the resolved config with    *)
(* its original value.                                                      *)
(***************************************************************************)
C29_RawConfigUntouched ==
    optRet.op = "optimize"
        => /\ DOMAIN optRet.configAfter = DOMAIN optRet.config
           /\ \A k \in DOMAIN optRet.config : optRet.configAfter[k] = optRet.config[k]
           /\ ~optRet.result.raised
                  => \A k \in DOMAIN optRet.config \ OptimizerKeys :
                         /\ k \in DOMAIN optRet.result.value
                         /\ optRet.result.value[k] = optRet.config[k]

\* a raw config with a key of its own and a batch_size that optimize replaces
C29_Witness ==
    /\ OptimizeReturned
    /\ "model_name" \in DOMAIN optRet.config
    /\ optRet.config["batch_size"] = 2
    /\ ResolvedBatchSize = 4
    /\ optRet.result.value["model_name"] = "gpt2"
    /\ optRet.configAfter["batch_size"] = 2

====
